---- MODULE Spec2Model ----
(***************************************************************************)
(* ContactSequenceWrapper of crocoddyl's locomotion unit tests             *)
(* (contact_sequence_wrapper.py): createEESplines builds one cubic Hermite *)
(* interpolant per end effector from a state trajectory, and               *)
(* createCentroidalPhi reshapes the segments of a contact sequence into    *)
(* centroidal interpolants after dropping duplicated timestamps.           *)
(*                                                                         *)
(* Arrays are sequences of rows, rows are sequences of entries.  Python    *)
(* indices are 0-based and TLA+ sequences 1-based: python row/column j is  *)
(* element j + 1 here.  Column ranges (range_def) are kept 0-based, as in  *)
(* the source.  Results of the external numerical libraries (polynomial    *)
(* fitting, forward kinematics, spline construction) are kept as symbolic  *)
(* terms recording the arguments they were computed from.                  *)
(***************************************************************************)
EXTENDS Integers, Sequences, FiniteSets, TLC

VARIABLES
    cs,          \* self.cs: the contact sequence (cs.ms_interval_data)
    ee_map,      \* self.ee_map: ordered map patch -> frame name
    ee_splines,  \* self.ee_splines
    phi_c,       \* self.phi_c
    rmodel,      \* the robot model handed to both operations
    rdata,       \* the kinematics workspace handed to both operations
    pc,          \* position of the running call
    method,      \* the operation called, "none" before any call
    result,      \* "none", "returned" or the exception that propagated
    \* locals of createEESplines
    xs, t_sampling, abscissa, patch_i, i, p, m,
    \* locals of createCentroidalPhi
    mass, t_traj, phi_c_, n, spl_i, duplicates, phi_c_2

vars == <<cs, ee_map, ee_splines, phi_c, rmodel, rdata, pc, method, result,
          xs, t_sampling, abscissa, patch_i, i, p, m,
          mass, t_traj, phi_c_, n, spl_i, duplicates, phi_c_2>>

ee_locals == <<xs, t_sampling, abscissa, patch_i, i, p, m>>
phi_locals == <<mass, t_traj, phi_c_, n, spl_i, duplicates, phi_c_2>>

----------------------------------------------------------------------------
(* Bounds of the explored inputs *)

MaxSeg == 2      \* processed segments of a contact sequence (the terminal one excluded)
MaxRows == 4     \* rows of the concatenated timeline
MaxN == 2        \* states in the trajectory handed to createEESplines
StateWidth == 9  \* columns of a segment's state rows: com, vcom, angular momentum

ControlWidths == {12, 24, 30}
Periods == {1, 2}

Min(a, b) == IF a < b THEN a ELSE b

----------------------------------------------------------------------------
(* Inputs *)

\* A segment's time axis: starts at `start`, each step repeats the instant or advances it
SegAxes(start, len) ==
    { a \in [1..len -> start..(start + len - 1)] :
        /\ a[1] = start
        /\ \A j \in 1..(len - 1) : a[j + 1] - a[j] \in {0, 1} }

RECURSIVE Rows(_)
Rows(axes) == IF axes = <<>> THEN 0 ELSE Len(Head(axes)) + Rows(Tail(axes))

\* The next segment starts before, at (a shared boundary) or after the previous end
Starts(axes) ==
    IF axes = <<>> THEN {0}
    ELSE LET last == axes[Len(axes)] IN
         {last[Len(last)] - 1, last[Len(last)], last[Len(last)] + 1}

NextAxes(axes, r) ==
    UNION { SegAxes(st, len) : st \in Starts(axes), len \in 1..(r - Rows(axes)) }

\* The lists of k time axes with at most r rows in all
RECURSIVE AxesLists(_, _)
AxesLists(k, r) ==
    IF k = 0 THEN {<<>>}
    ELSE UNION { { Append(axes, ax) : ax \in NextAxes(axes, r) } :
                 axes \in AxesLists(k - 1, r - 1) }

\* Sample values: distinct for every (array, segment, row, column)
XVal(s, r, c) == 1000 * s + 100 * r + c
DXVal(s, r, c) == 10000 + XVal(s, r, c)
UVal(s, r, c) == 20000 + XVal(s, r, c)

Segment(s, axis, w) ==
    [ time_trajectory |-> axis,
      state_trajectory |-> [r \in 1..Len(axis) |-> [c \in 1..StateWidth |-> XVal(s, r, c)]],
      dot_state_trajectory |-> [r \in 1..Len(axis) |-> [c \in 1..StateWidth |-> DXVal(s, r, c)]],
      control_trajectory |-> [r \in 1..Len(axis) |-> [c \in 1..w |-> UVal(s, r, c)]] ]

\* The terminal segment: a zero-duration marker at the end of the timeline
Terminal(axes, w) ==
    LET end == IF axes = <<>> THEN 0 ELSE axes[Len(axes)][Len(axes[Len(axes)])]
    IN Segment(Len(axes) + 1, <<end>>, w)

ContactSequence(axes, w) ==
    [s \in 1..(Len(axes) + 1) |->
        IF s <= Len(axes) THEN Segment(s, axes[s], w) ELSE Terminal(axes, w)]

Quadruped ==
    [ ee_map |-> << <<"RF_patch", "RF_frame">>, <<"LF_patch", "LF_frame">>,
                    <<"RH_patch", "RH_frame">>, <<"LH_patch", "LH_frame">> >>,
      rmodel |-> [nq |-> 3, nv |-> 2, mass |-> 3] ]

Biped ==
    [ ee_map |-> << <<"LF_patch", "LF_frame">>, <<"RF_patch", "RF_frame">> >>,
      rmodel |-> [nq |-> 2, nv |-> 1, mass |-> 2] ]

Robots == {Quadruped, Biped}

\* xs[j]: a state of nq + nv entries, distinct for every (sample, entry)
StateTrajectory(N, model) ==
    [j \in 1..N |-> [e \in 1..(model.nq + model.nv) |-> 10 * j + e]]

----------------------------------------------------------------------------
(* Values of the collaborators *)

NoSpline == [built |-> FALSE, t |-> <<>>, v |-> <<>>, dv |-> <<>>]
CubicHermiteSpline(t, v, dv) == [built |-> TRUE, t |-> t, v |-> v, dv |-> dv]

Zeros(rows, cols) == [r \in 1..rows |-> [c \in 1..cols |-> 0]]

\* self.ee_map.keys(), in the map's order
Keys(map) == [j \in 1..Len(map) |-> map[j][1]]
KeySet(map) == { map[j][1] : j \in 1..Len(map) }
\* self.ee_map[patch]
FrameOf(map, patch) == map[CHOOSE j \in 1..Len(map) : map[j][1] = patch][2]


----------------------------------------------------------------------------
(* createEESplines *)

\* np.linspace(start, stop, num)
Linspace(start, stop, num) ==
    [j \in 1..num |->
        IF num = 1 THEN start ELSE start + ((j - 1) * (stop - start)) \div (num - 1)]

\* One column of np.zeros((3, N))
ZeroColumn == [kind |-> "zero", frame |-> "", q |-> <<>>, v |-> <<>>]

\* pinocchio.forwardKinematics(rmodel, rdata, q, v): the workspace holds q and v
forwardKinematics(q, v) == [q |-> q, v |-> v]

\* pinocchio.updateFramePlacement(rmodel, rdata, frame).translation
FrameTranslation(data, frame) ==
    [kind |-> "translation", frame |-> frame, q |-> data.q, v |-> <<>>]

\* pinocchio.getFrameVelocity(rmodel, rdata, frame).linear
FrameLinearVelocity(data, frame) ==
    [kind |-> "linear", frame |-> frame, q |-> data.q, v |-> data.v]

\* xs[i][:rmodel.nq] and xs[i][-rmodel.nv:]
ConfigurationOf(x, model) == SubSeq(x, 1, model.nq)
VelocityOf(x, model) == SubSeq(x, Len(x) - model.nv + 1, Len(x))

\* EESplines.update([[patch, spline]])
UpdateSplines(splines, patch, spline) ==
    [ none |-> FALSE,
      map |-> [q \in DOMAIN splines.map \cup {patch} |->
                 IF q = patch THEN spline ELSE splines.map[q]] ]

\* Lines 26-28: the abscissa and the empty result container
CallCreateEESplines ==
    /\ pc = "idle"
    /\ method = "none"
    /\ \E N \in 0..MaxN, ts \in Periods :
         /\ xs' = StateTrajectory(N, rmodel)
         /\ t_sampling' = ts
         /\ abscissa' = Linspace(0, ts * (N - 1), N)
    /\ method' = "createEESplines"
    /\ pc' = "for_patch"
    /\ ee_splines' = [none |-> FALSE, map |-> <<>>]
    /\ patch_i' = 1
    /\ UNCHANGED <<cs, ee_map, phi_c, rmodel, rdata, result, i, p, m>>
    /\ UNCHANGED phi_locals

\* Lines 29-31: the next patch's zero arrays; its loop over the samples runs if N > 0
ForPatch ==
    /\ pc = "for_patch"
    /\ patch_i <= Len(ee_map)
    /\ p' = [j \in 1..Len(xs) |-> ZeroColumn]
    /\ m' = [j \in 1..Len(xs) |-> ZeroColumn]
    /\ i' = 0
    /\ IF Len(xs) > 0
       THEN pc' = "for_i" /\ UNCHANGED patch_i
       ELSE pc' = "for_patch" /\ patch_i' = patch_i + 1
    /\ UNCHANGED <<cs, ee_map, ee_splines, phi_c, rmodel, rdata, method, result,
                   xs, t_sampling, abscissa>>
    /\ UNCHANGED phi_locals

\* Lines 32-39: one sample of the current patch, and the update of the container
ForI ==
    /\ pc = "for_i"
    /\ i < Len(xs)
    /\ LET patch == Keys(ee_map)[patch_i]
           frame == FrameOf(ee_map, patch)
           data == forwardKinematics(ConfigurationOf(xs[i + 1], rmodel),
                                     VelocityOf(xs[i + 1], rmodel))
           p1 == [p EXCEPT ![i + 1] = FrameTranslation(data, frame)]
           m1 == [m EXCEPT ![i + 1] = FrameLinearVelocity(data, frame)]
       IN  /\ rdata' = data
           /\ p' = p1
           /\ m' = m1
           /\ ee_splines' = UpdateSplines(ee_splines, patch, CubicHermiteSpline(abscissa, p1, m1))
    /\ i' = i + 1
    /\ IF i + 1 < Len(xs)
       THEN UNCHANGED <<pc, patch_i>>
       ELSE pc' = "for_patch" /\ patch_i' = patch_i + 1
    /\ UNCHANGED <<cs, ee_map, phi_c, rmodel, method, result, xs, t_sampling, abscissa>>
    /\ UNCHANGED phi_locals

\* Line 40
ReturnEESplines ==
    /\ pc = "for_patch"
    /\ patch_i > Len(ee_map)
    /\ pc' = "idle"
    /\ result' = "returned"
    /\ UNCHANGED <<cs, ee_map, ee_splines, phi_c, rmodel, rdata, method>>
    /\ UNCHANGED ee_locals
    /\ UNCHANGED phi_locals

----------------------------------------------------------------------------
(* Polynomial fitting and duplicate removal (spline_utils) *)

Width(a) == IF a = <<>> THEN 0 ELSE Len(a[1])
Column(a, c) == [r \in 1..Len(a) |-> a[r][c]]

\* The float 0.0 an array of np.zeros holds, as a term: the value of the empty fit
ZeroEntry == [fit |-> [deriv |-> 0, deg |-> 0, t |-> <<>>, y |-> <<>>], at |-> 0]
ZerosF(rows, cols) == [r \in 1..rows |-> [c \in 1..cols |-> ZeroEntry]]

\* polyfitND(tt, u, deg): per column of u, the fitted polynomial and its derivative
polyfitND(tt, u, deg) ==
    [ poly_u |-> [c \in 1..Width(u) |-> [deriv |-> 0, deg |-> deg, t |-> tt, y |-> Column(u, c)]],
      dpoly_u |-> [c \in 1..Width(u) |-> [deriv |-> 1, deg |-> deg, t |-> tt, y |-> Column(u, c)]] ]

\* poly(t): the value at t of a fitted polynomial
PolyEval(poly, t) == [fit |-> poly, at |-> t]

\* findDuplicates: the indices whose timestamp equals an already-seen timestamp
findDuplicates(t) == { j \in 1..Len(t) : \E e \in 1..(j - 1) : t[e] = t[j] }

\* removeDuplicates: the rows outside the index set, in their original order
RECURSIVE KeepFrom(_, _, _)
KeepFrom(arr, dups, j) ==
    IF j > Len(arr) THEN <<>>
    ELSE (IF j \in dups THEN <<>> ELSE <<arr[j]>>) \o KeepFrom(arr, dups, j + 1)

removeDuplicates(arr, dups) == KeepFrom(arr, dups, 1)

----------------------------------------------------------------------------
(* createCentroidalPhi *)

PatchWidth == 6

Range(a, b) == [j \in 1..(b - a) |-> a + j - 1]

\* range_def: the 0-based control columns of each patch
range_def ==
    [ patch \in {"RF_patch", "LF_patch", "RH_patch", "LH_patch"} |->
        CASE patch = "RF_patch" -> Range(0, 6)
          [] patch = "LF_patch" -> Range(6, 12)
          [] patch = "RH_patch" -> Range(12, 18)
          [] patch = "LH_patch" -> Range(18, 24) ]

\* self.cs.ms_interval_data[:-1]
Processed(c) == SubSeq(c, 1, Len(c) - 1)

\* The concatenation of the processed segments' time axes
RECURSIVE ConcatTime(_)
ConcatTime(segs) ==
    IF segs = <<>> THEN <<>>
    ELSE Head(segs).time_trajectory \o ConcatTime(Tail(segs))

\* class PhiC: every array zero, N rows
PhiC(N, patches) ==
    [ f |-> [q \in patches |-> ZerosF(N, PatchWidth)],
      df |-> [q \in patches |-> ZerosF(N, PatchWidth)],
      com_vcom |-> Zeros(N, 6),
      vcom_acom |-> Zeros(N, 6),
      hg |-> Zeros(N, 6),
      dhg |-> Zeros(N, 6) ]

\* Rows lo+1 .. min(hi, N) of an N-row array: python's a[lo:hi]
SliceLen(N, lo, hi) == Min(hi, N) - Min(lo, N)

\* numpy accepts a[lo:hi, :] = b when b has the slice's row count, or one row (broadcast)
FitsSlice(N, lo, hi, rows) == rows = SliceLen(N, lo, hi) \/ rows = 1

\* a[lo:hi, :] = b
AssignRows(a, lo, hi, b) ==
    [r \in 1..Len(a) |->
        IF r > lo /\ r <= Min(hi, Len(a))
        THEN (IF Len(b) = 1 THEN b[1] ELSE b[r - lo])
        ELSE a[r]]

\* x[:, :6]
ComRow(row) == SubSeq(row, 1, 6)

\* The linear part copied without the mass
HgRowUnscaled(ms, row) ==
    [c \in 1..6 |-> IF c <= 3 THEN row[3 + c] ELSE row[Len(row) - 6 + c]]

\* hg[.., :3] = mass * x[:, 3:6] and hg[.., 3:] = x[:, -3:]
HgRow(ms, row) ==
    [c \in 1..6 |-> IF c <= 3 THEN ms * row[3 + c] ELSE row[Len(row) - 6 + c]]

\* f_poly(t, r) and f_dpoly(t, r): the polynomials of columns r, evaluated at t
f_poly(polys, t, r) == [j \in 1..Len(r) |-> PolyEval(polys[r[j] + 1], t)]

\* np.array([f_poly(t, range_def[patch]) for t in tt])
ForceRows(polys, tt, patch) == [r \in 1..Len(tt) |-> f_poly(polys, tt[r], range_def[patch])]

\* The fit made over the first nt instants of the timeline, whatever the offset
SegmentTimesFromStart(t, nn, nt) == SubSeq(t, 1, Min(nt, Len(t)))

\* The time axis the fit of a segment is made over: t_traj[n:n + nt]
SegmentTimes(t, nn, nt) == SubSeq(t, nn + 1, Min(nn + nt, Len(t)))

\* The write offset left where it was
NextOffsetStuck(nn, nt) == nn

\* n += nt
NextOffset(nn, nt) == nn + nt

\* The exception, if any, one pass of the segment loop raises
RECURSIVE PatchOutcome(_, _, _, _, _)
PatchOutcome(patches, j, width, N, sl) ==
    IF j > Len(patches) THEN "ok"
    ELSE IF patches[j] \notin DOMAIN range_def THEN "KeyError"
    ELSE IF sl.tt # <<>> /\ \E e \in 1..PatchWidth : range_def[patches[j]][e] >= width
         THEN "IndexError"
    ELSE IF ~FitsSlice(N, sl.lo, sl.hi, Len(sl.tt)) \/ sl.tt = <<>> THEN "ValueError"
    ELSE PatchOutcome(patches, j + 1, width, N, sl)

SegmentOutcome(spl, t, nn, patches) ==
    LET nt == Len(spl.state_trajectory)
        N == Len(t)
    IN  IF ~FitsSlice(N, nn, nn + nt, Len(spl.state_trajectory))
           \/ ~FitsSlice(N, nn, nn + nt, Len(spl.dot_state_trajectory))
        THEN "ValueError"
        ELSE PatchOutcome(patches, 1, Width(spl.control_trajectory), N,
                          [lo |-> nn, hi |-> nn + nt, tt |-> SegmentTimes(t, nn, nt)])

\* Lines 78-103: the arrays after one segment's samples are written at offset nn
WriteSegment(phi, spl, t, nn, ms, patches) ==
    LET x == spl.state_trajectory
        dx == spl.dot_state_trajectory
        u == spl.control_trajectory
        nt == Len(x)
        tt == SegmentTimes(t, nn, nt)
        fit == polyfitND(tt, u, 3)
        used == { patches[j] : j \in 1..Len(patches) }
    IN  [ com_vcom |-> AssignRows(phi.com_vcom, nn, nn + nt, [r \in 1..Len(x) |-> ComRow(x[r])]),
          vcom_acom |-> AssignRows(phi.vcom_acom, nn, nn + nt, [r \in 1..Len(dx) |-> ComRow(dx[r])]),
          hg |-> AssignRows(phi.hg, nn, nn + nt, [r \in 1..Len(x) |-> HgRow(ms, x[r])]),
          dhg |-> AssignRows(phi.dhg, nn, nn + nt, [r \in 1..Len(dx) |-> HgRow(ms, dx[r])]),
          f |-> [q \in DOMAIN phi.f |->
                    IF q \in used
                    THEN AssignRows(phi.f[q], nn, nn + nt, ForceRows(fit.poly_u, tt, q))
                    ELSE phi.f[q]],
          df |-> [q \in DOMAIN phi.df |->
                    IF q \in used
                    THEN AssignRows(phi.df[q], nn, nn + nt, ForceRows(fit.dpoly_u, tt, q))
                    ELSE phi.df[q]] ]

\* The duplicates' first occurrences removed, in place of the repeated rows
PhiC2KeepLast(phi, dups) ==
    LET firsts == { j - 1 : j \in dups }
    IN  [ f |-> [q \in DOMAIN phi.f |-> removeDuplicates(phi.f[q], firsts)],
          df |-> [q \in DOMAIN phi.df |-> removeDuplicates(phi.df[q], firsts)],
          com_vcom |-> removeDuplicates(phi.com_vcom, firsts),
          vcom_acom |-> removeDuplicates(phi.vcom_acom, firsts),
          hg |-> removeDuplicates(phi.hg, firsts),
          dhg |-> removeDuplicates(phi.dhg, firsts) ]

\* The angular-momentum arrays left with their duplicate rows
PhiC2SkipHg(phi, dups) ==
    [ f |-> [q \in DOMAIN phi.f |-> removeDuplicates(phi.f[q], dups)],
      df |-> [q \in DOMAIN phi.df |-> removeDuplicates(phi.df[q], dups)],
      com_vcom |-> removeDuplicates(phi.com_vcom, dups),
      vcom_acom |-> removeDuplicates(phi.vcom_acom, dups),
      hg |-> phi.hg,
      dhg |-> phi.dhg ]

\* class PhiC2: every array of PhiC with the duplicate rows removed
PhiC2(phi, dups) ==
    [ f |-> [q \in DOMAIN phi.f |-> removeDuplicates(phi.f[q], dups)],
      df |-> [q \in DOMAIN phi.df |-> removeDuplicates(phi.df[q], dups)],
      com_vcom |-> removeDuplicates(phi.com_vcom, dups),
      vcom_acom |-> removeDuplicates(phi.vcom_acom, dups),
      hg |-> removeDuplicates(phi.hg, dups),
      dhg |-> removeDuplicates(phi.dhg, dups) ]

\* The timeline handed on with its duplicates
DedupTimelineKept(t, dups) == t

\* t_traj = removeDuplicates(t_traj, duplicates)
DedupTimeline(t, dups) == removeDuplicates(t, dups)

\* pinocchio.crba(rmodel, rdata, pinocchio.neutral(rmodel))[0, 0]
Neutral(model) == [e \in 1..model.nq |-> 0]
TotalMass(model) == model.mass

NoPhi ==
    [ f |-> <<>>, df |-> <<>>, com_vcom |-> <<>>, vcom_acom |-> <<>>, hg |-> <<>>, dhg |-> <<>> ]

\* Lines 45-76: the timeline, its length and the zero arrays
CallCreateCentroidalPhi ==
    /\ pc = "idle"
    /\ method = "none"
    /\ method' = "createCentroidalPhi"
    /\ pc' = "for_spl"
    /\ mass' = TotalMass(rmodel)
    /\ rdata' = [q |-> Neutral(rmodel), v |-> <<>>]
    /\ t_traj' = ConcatTime(Processed(cs))
    /\ phi_c_' = PhiC(Len(ConcatTime(Processed(cs))), KeySet(ee_map))
    /\ n' = 0
    /\ spl_i' = 1
    /\ UNCHANGED <<cs, ee_map, ee_splines, phi_c, rmodel, result, duplicates, phi_c_2>>
    /\ UNCHANGED ee_locals

\* A loop body that scaled the segment's state rows in place instead of copying them
ForSplFrameInPlace ==
    /\ cs' = [cs EXCEPT ![spl_i].state_trajectory =
                 [r \in 1..Len(@) |-> [c \in 1..Len(@[r]) |->
                     IF c \in 4..6 THEN mass * @[r][c] ELSE @[r][c]]]]
    /\ UNCHANGED <<ee_map, ee_splines, phi_c, rmodel, rdata, method,
                   mass, t_traj, duplicates, phi_c_2>>
    /\ UNCHANGED ee_locals

\* Lines 77-105 read x, dx, u and tt and assign only phi_c_ and n
ForSplFrame ==
    /\ UNCHANGED <<cs, ee_map, ee_splines, phi_c, rmodel, rdata, method,
                   mass, t_traj, duplicates, phi_c_2>>
    /\ UNCHANGED ee_locals

\* Lines 77-105: one pass of the loop over the processed segments
ForSpl ==
    /\ pc = "for_spl"
    /\ spl_i <= Len(cs) - 1
    /\ LET spl == cs[spl_i]
           outcome == SegmentOutcome(spl, t_traj, n, Keys(ee_map))
       IN  IF outcome = "ok"
           THEN /\ phi_c_' = WriteSegment(phi_c_, spl, t_traj, n, mass, Keys(ee_map))
                /\ n' = NextOffset(n, Len(spl.state_trajectory))
                /\ spl_i' = spl_i + 1
                /\ UNCHANGED <<pc, result>>
           ELSE /\ pc' = "idle"
                /\ result' = outcome
                /\ UNCHANGED <<phi_c_, n, spl_i>>
    /\ ForSplFrame

\* Lines 107-123: the duplicate rows are removed from every array and from the timeline
Deduplicate ==
    /\ pc = "for_spl"
    /\ spl_i > Len(cs) - 1
    /\ pc' = "build"
    /\ duplicates' = findDuplicates(t_traj)
    /\ phi_c_2' = PhiC2(phi_c_, findDuplicates(t_traj))
    /\ t_traj' = DedupTimeline(t_traj, findDuplicates(t_traj))
    /\ UNCHANGED <<cs, ee_map, ee_splines, phi_c, rmodel, rdata, method, result,
                   mass, phi_c_, n, spl_i>>
    /\ UNCHANGED ee_locals

\* Lines 125-130: the interpolants over the deduplicated timeline
BuildInterpolants ==
    /\ pc = "build"
    /\ pc' = "idle"
    /\ result' = "returned"
    /\ phi_c' =
         [ com_vcom |-> CubicHermiteSpline(t_traj, phi_c_2.com_vcom, phi_c_2.vcom_acom),
           hg |-> CubicHermiteSpline(t_traj, phi_c_2.hg, phi_c_2.dhg),
           forces |-> [q \in DOMAIN phi_c.forces \cup KeySet(ee_map) |->
                         IF q \in KeySet(ee_map)
                         THEN CubicHermiteSpline(t_traj, phi_c_2.f[q], phi_c_2.df[q])
                         ELSE phi_c.forces[q]] ]
    /\ UNCHANGED <<cs, ee_map, ee_splines, rmodel, rdata, method>>
    /\ UNCHANGED ee_locals
    /\ UNCHANGED phi_locals

----------------------------------------------------------------------------

Init ==
    /\ \E robot \in Robots, w \in ControlWidths, k \in 0..MaxSeg :
         \E axes \in AxesLists(k, MaxRows) :
            /\ cs = ContactSequence(axes, w)
            /\ ee_map = robot.ee_map
            /\ rmodel = robot.rmodel
    /\ ee_splines = [none |-> TRUE, map |-> <<>>]
    /\ phi_c = [com_vcom |-> NoSpline, hg |-> NoSpline, forces |-> <<>>]
    /\ rdata = [q |-> <<>>, v |-> <<>>]
    /\ pc = "idle"
    /\ method = "none"
    /\ result = "none"
    /\ xs = <<>>
    /\ t_sampling = 0
    /\ abscissa = <<>>
    /\ patch_i = 0
    /\ i = 0
    /\ p = <<>>
    /\ m = <<>>
    /\ mass = 0
    /\ t_traj = <<>>
    /\ phi_c_ = NoPhi
    /\ n = 0
    /\ spl_i = 0
    /\ duplicates = {}
    /\ phi_c_2 = NoPhi

Next ==
    \/ CallCreateEESplines
    \/ ForPatch
    \/ ForI
    \/ ReturnEESplines
    \/ CallCreateCentroidalPhi
    \/ ForSpl
    \/ Deduplicate
    \/ BuildInterpolants

Spec == Init /\ [][Next]_vars

----------------------------------------------------------------------------
(* Vocabulary of the properties *)

NonDecreasing(t) == \A j \in 1..(Len(t) - 1) : t[j] <= t[j + 1]
StrictlyIncreasing(t) == \A j \in 1..(Len(t) - 1) : t[j] < t[j + 1]

\* The rows the segments before segment s hold
RECURSIVE Offset(_)
Offset(s) == IF s <= 1 THEN 0 ELSE Offset(s - 1) + Len(cs[s - 1].time_trajectory)

\* Segment s's local row r is index Offset(s) + r of the timeline
InSegment(j, s) == j > Offset(s) /\ j <= Offset(s) + Len(cs[s].time_trajectory)

\* The concatenated timeline before deduplication: the processed segments' instants
Timeline0 ==
    [j \in 1..Offset(Len(cs)) |->
        LET s == CHOOSE e \in 1..(Len(cs) - 1) : InSegment(j, e)
        IN  cs[s].time_trajectory[j - Offset(s)]]

\* Index j of the timeline holds the first occurrence of its timestamp
FirstOcc(j) == \A e \in 1..(j - 1) : Timeline0[e] # Timeline0[j]

\* How many first occurrences the timeline holds up to index j
Rank(j) == Cardinality({ e \in 1..j : FirstOcc(e) })

\* The number of timestamps that equal an earlier one
NumDuplicates == Cardinality({ j \in 1..Len(Timeline0) : ~FirstOcc(j) })

MatchingRowCounts ==
    \A s \in 1..(Len(cs) - 1) :
        /\ Len(cs[s].state_trajectory) = Len(cs[s].time_trajectory)
        /\ Len(cs[s].dot_state_trajectory) = Len(cs[s].time_trajectory)
        /\ Len(cs[s].control_trajectory) = Len(cs[s].time_trajectory)

InPhi == method = "createCentroidalPhi"
PhiReturned == InPhi /\ result = "returned"
Deduplicated == InPhi /\ (pc = "build" \/ result = "returned")
LoopDone == InPhi /\ result \in {"none", "returned"} /\ spl_i > Len(cs) - 1

\* Segments whose samples the loop has written
Written(s) == InPhi /\ s \in 1..(Len(cs) - 1) /\ s < spl_i

SameRow(a2, k, a, j) == k <= Len(a2) /\ j <= Len(a) /\ a2[k] = a[j]

\* Row k of every deduplicated array is row j of the array it was made from
RowsCarried(k, j) ==
    /\ SameRow(phi_c_2.com_vcom, k, phi_c_.com_vcom, j)
    /\ SameRow(phi_c_2.vcom_acom, k, phi_c_.vcom_acom, j)
    /\ SameRow(phi_c_2.hg, k, phi_c_.hg, j)
    /\ SameRow(phi_c_2.dhg, k, phi_c_.dhg, j)
    /\ \A q \in KeySet(ee_map) :
         /\ SameRow(phi_c_2.f[q], k, phi_c_.f[q], j)
         /\ SameRow(phi_c_2.df[q], k, phi_c_.df[q], j)

\* The row counts of the arrays a spline was built from
SplineRows(sp, rows) ==
    sp.built /\ Len(sp.t) = rows /\ Len(sp.v) = rows /\ Len(sp.dv) = rows

\* The fit of segment s's control column c (0-based) over segment s's own time axis
OwnFit(s, c, d) ==
    [ deriv |-> d, deg |-> 3, t |-> cs[s].time_trajectory,
      y |-> [r \in 1..Len(cs[s].control_trajectory) |-> cs[s].control_trajectory[r][c + 1]] ]

\* The force (d = 0) or force-rate (d = 1) row of patch q at segment s's sample r
OwnForceRow(s, r, q, d) ==
    [e \in 1..PatchWidth |->
        [ fit |-> OwnFit(s, range_def[q][e], d), at |-> cs[s].time_trajectory[r] ]]

\* The angular-momentum row made from a state (or state-derivative) row
Scaled(row, j, c) ==
    /\ j <= Len(row)
    /\ \A e \in 1..3 :
         /\ row[j][e] = rmodel.mass * c[3 + e]
         /\ row[j][3 + e] = c[Len(c) - 3 + e]

----------------------------------------------------------------------------
(* Properties *)

\* C1: over a non-decreasing concatenated timeline, every timestamp retained by the
\* deduplication carries, in com_vcom, vcom_acom, hg, dhg and each patch's f and df,
\* the row stored at the first occurrence of that timestamp, and the retained rows
\* keep their original relative order.
C1_FirstOccurrenceRows ==
    (Deduplicated /\ NonDecreasing(Timeline0)) =>
        \A k \in 1..Len(t_traj) :
            \E j \in 1..Len(Timeline0) :
                /\ Timeline0[j] = t_traj[k]
                /\ FirstOcc(j)
                /\ Rank(j) = k
                /\ RowsCarried(k, j)

\* Two segments share their boundary instant and the second segment's first row was dropped
C1_Witness ==
    /\ pc = "build"
    /\ Len(cs) = 3
    /\ NonDecreasing(Timeline0)
    /\ Len(cs[1].time_trajectory) = 2
    /\ Len(cs[2].time_trajectory) = 2
    /\ Timeline0[2] = Timeline0[3]
    /\ duplicates = {3}
    /\ t_traj = <<0, 1, 2>>
    /\ phi_c_2.com_vcom[2] = SubSeq(cs[1].state_trajectory[2], 1, 6)
    /\ phi_c_2.com_vcom[2] # SubSeq(cs[2].state_trajectory[1], 1, 6)

\* C2: with N_total timestamps of which k equal an earlier one, the deduplicated
\* timeline and every array handed to the interpolants has exactly N_total - k rows.
C2_RowCounts ==
    /\ Deduplicated =>
         /\ Len(t_traj) = Len(Timeline0) - NumDuplicates
         /\ Len(phi_c_2.com_vcom) = Len(t_traj)
         /\ Len(phi_c_2.vcom_acom) = Len(t_traj)
         /\ Len(phi_c_2.hg) = Len(t_traj)
         /\ Len(phi_c_2.dhg) = Len(t_traj)
         /\ \A q \in KeySet(ee_map) :
              Len(phi_c_2.f[q]) = Len(t_traj) /\ Len(phi_c_2.df[q]) = Len(t_traj)
    /\ PhiReturned =>
         /\ SplineRows(phi_c.com_vcom, Len(Timeline0) - NumDuplicates)
         /\ SplineRows(phi_c.hg, Len(Timeline0) - NumDuplicates)
         /\ \A q \in KeySet(ee_map) :
              /\ q \in DOMAIN phi_c.forces
              /\ SplineRows(phi_c.forces[q], Len(Timeline0) - NumDuplicates)

\* The interpolants were built from a timeline that lost two rows
C2_Witness ==
    /\ PhiReturned
    /\ NumDuplicates = 2
    /\ Len(Timeline0) = 4
    /\ SplineRows(phi_c.hg, 2)

\* C3: for a non-decreasing concatenated timeline, the deduplicated timeline handed
\* to every CubicHermiteSpline constructor is strictly increasing.
C3_StrictlyIncreasing ==
    /\ (Deduplicated /\ NonDecreasing(Timeline0)) => StrictlyIncreasing(t_traj)
    /\ (PhiReturned /\ NonDecreasing(Timeline0)) =>
         /\ StrictlyIncreasing(phi_c.com_vcom.t)
         /\ StrictlyIncreasing(phi_c.hg.t)
         /\ \A q \in KeySet(ee_map) :
              q \in DOMAIN phi_c.forces /\ StrictlyIncreasing(phi_c.forces[q].t)

\* Interpolants built over three instants of a timeline that repeated one inside a segment
C3_Witness ==
    /\ PhiReturned
    /\ NonDecreasing(Timeline0)
    /\ Len(cs) = 2
    /\ \E j \in 1..(Len(Timeline0) - 1) : Timeline0[j] = Timeline0[j + 1]
    /\ Len(phi_c.com_vcom.t) = 3

\* C4: for every row of every processed segment, columns 0-2 of hg (dhg) are the mass
\* times columns 3-5 of the state (state-derivative) row and columns 3-5 are its last
\* three columns; the rows that survive the deduplication keep this.
C4_AngularMomentum ==
    /\ \A s \in 1..(Len(cs) - 1) :
         Written(s) =>
            \A r \in 1..Len(cs[s].state_trajectory) :
                /\ Scaled(phi_c_.hg, Offset(s) + r, cs[s].state_trajectory[r])
                /\ Scaled(phi_c_.dhg, Offset(s) + r, cs[s].dot_state_trajectory[r])
    /\ Deduplicated =>
         \A s \in 1..(Len(cs) - 1) :
            \A r \in 1..Len(cs[s].state_trajectory) :
                FirstOcc(Offset(s) + r) =>
                    /\ Scaled(phi_c_2.hg, Rank(Offset(s) + r), cs[s].state_trajectory[r])
                    /\ Scaled(phi_c_2.dhg, Rank(Offset(s) + r), cs[s].dot_state_trajectory[r])

\* A deduplicated hg row of the second segment, scaled by a mass other than one
C4_Witness ==
    /\ pc = "build"
    /\ Len(cs) = 3
    /\ duplicates # {}
    /\ rmodel.mass = 3
    /\ FirstOcc(Offset(2) + 1)
    /\ phi_c_2.hg[Rank(Offset(2) + 1)][1] = 3 * cs[2].state_trajectory[1][4]
    /\ phi_c_2.hg[Rank(Offset(2) + 1)][6] = cs[2].state_trajectory[1][StateWidth]

\* C6: for every processed segment, every patch of ee_map and every sample time of the
\* segment, the stored force row is the value at that time of the degree-3 polynomials
\* fitted to the segment's own control columns range_def[patch] over the segment's own
\* time axis, and the force-rate row is the value of their derivatives.
C6_OwnSegmentFit ==
    \A s \in 1..(Len(cs) - 1) :
        Written(s) =>
            \A q \in KeySet(ee_map) :
                \A r \in 1..Len(cs[s].time_trajectory) :
                    /\ Offset(s) + r <= Len(phi_c_.f[q])
                    /\ phi_c_.f[q][Offset(s) + r] = OwnForceRow(s, r, q, 0)
                    /\ phi_c_.df[q][Offset(s) + r] = OwnForceRow(s, r, q, 1)

\* The fourth patch of a 24-wide control, recovered from the last six columns of the
\* second segment
C6_Witness ==
    /\ InPhi
    /\ Len(cs) = 3
    /\ spl_i = 3
    /\ Width(cs[2].control_trajectory) = 24
    /\ "LH_patch" \in KeySet(ee_map)
    /\ phi_c_.f["LH_patch"][Offset(2) + 1][PatchWidth].fit.y
         = [r \in 1..Len(cs[2].control_trajectory) |-> cs[2].control_trajectory[r][24]]
    /\ phi_c_.f["LH_patch"][Offset(2) + 1][PatchWidth].fit.t = cs[2].time_trajectory

C10_OffsetAlignment ==
    MatchingRowCounts =>
        /\ (InPhi /\ result = "none" /\ pc = "for_spl") => n = Offset(spl_i)
        /\ (InPhi /\ pc = "for_spl") =>
             /\ t_traj = Timeline0
             /\ Len(phi_c_.com_vcom) = Len(Timeline0)
        /\ LoopDone =>
             /\ n = Len(Timeline0)
             /\ \A j \in 1..Len(Timeline0) :
                  \E s \in 1..(Len(cs) - 1) :
                     /\ InSegment(j, s)
                     /\ phi_c_.com_vcom[j] = SubSeq(cs[s].state_trajectory[j - Offset(s)], 1, 6)
                     /\ phi_c_.vcom_acom[j] = SubSeq(cs[s].dot_state_trajectory[j - Offset(s)], 1, 6)
                     /\ Scaled(phi_c_.hg, j, cs[s].state_trajectory[j - Offset(s)])
                     /\ Scaled(phi_c_.dhg, j, cs[s].dot_state_trajectory[j - Offset(s)])
                     /\ \A q \in KeySet(ee_map) :
                          /\ phi_c_.f[q][j] = OwnForceRow(s, j - Offset(s), q, 0)
                          /\ phi_c_.df[q][j] = OwnForceRow(s, j - Offset(s), q, 1)

\* The loop ended after two segments, the second written behind the first
C10_Witness ==
    /\ InPhi
    /\ pc = "for_spl"
    /\ Len(cs) = 3
    /\ spl_i = 3
    /\ n = 4
    /\ Len(cs[1].time_trajectory) = 3
    /\ phi_c_.com_vcom[4] = SubSeq(cs[2].state_trajectory[1], 1, 6)

\* C5: the column ranges used to slice a processed segment's control vector partition
\* its full width: every control column lies in exactly one used patch range.
C5_RangesPartitionWidth ==
    \A s \in 1..(Len(cs) - 1) :
        Written(s) =>
            \A c \in 0..(Width(cs[s].control_trajectory) - 1) :
                Cardinality({ q \in KeySet(ee_map) :
                                \E e \in 1..PatchWidth : range_def[q][e] = c }) = 1

\* C7: whenever a processed segment's control width differs from the sum of the
\* expected patch ranges (taken over the patches of ee_map or over all of range_def,
\* the width matches neither), the call fails and builds no centroidal interpolant.
C7_WidthMismatchFails ==
    (InPhi /\ pc = "idle"
       /\ \E s \in 1..(Len(cs) - 1) :
            /\ Width(cs[s].control_trajectory) # PatchWidth * Len(ee_map)
            /\ Width(cs[s].control_trajectory) # PatchWidth * Cardinality(DOMAIN range_def)) =>
        /\ result \in {"ValueError", "IndexError"}
        /\ ~phi_c.com_vcom.built
        /\ ~phi_c.hg.built
        /\ phi_c.forces = <<>>

\* C8: after createEESplines returns, for any number N of states, ee_splines holds
\* exactly one interpolant per end effector of ee_map, over the axis i * t_sampling,
\* whose i-th value and derivative come from the forward kinematics of xs[i].
C8_OneSplinePerEffector ==
    (method = "createEESplines" /\ result = "returned") =>
        /\ DOMAIN ee_splines.map = KeySet(ee_map)
        /\ \A patch \in KeySet(ee_map) :
             /\ patch \in DOMAIN ee_splines.map
             /\ ee_splines.map[patch].t = [j \in 1..Len(xs) |-> (j - 1) * t_sampling]
             /\ Len(ee_splines.map[patch].v) = Len(xs)
             /\ Len(ee_splines.map[patch].dv) = Len(xs)
             /\ \A j \in 1..Len(xs) :
                  /\ ee_splines.map[patch].v[j] =
                       [ kind |-> "translation", frame |-> FrameOf(ee_map, patch),
                         q |-> SubSeq(xs[j], 1, rmodel.nq), v |-> <<>> ]
                  /\ ee_splines.map[patch].dv[j] =
                       [ kind |-> "linear", frame |-> FrameOf(ee_map, patch),
                         q |-> SubSeq(xs[j], 1, rmodel.nq),
                         v |-> SubSeq(xs[j], rmodel.nq + 1, rmodel.nq + rmodel.nv) ]

====
